---- MODULE Spec2Model ----
(***************************************************************************)
(* A model of publish.py: the WINDOWS-symbol stripper                      *)
(* (remove_windows_symbols) and the publish driver (main).                 *)
(*                                                                         *)
(* Python strings are TLA+ strings; where the code looks inside a string   *)
(* (startswith, endswith, casefold, strip) the string is taken apart into  *)
(* its characters by Chars and the test is computed on the characters.     *)
(* A text file is the sequence of its lines (without line terminators).    *)
(***************************************************************************)
EXTENDS Integers, Sequences, FiniteSets, TLC

\* ------------------------------------------------------------------ bounds
\* longest file content, in lines
MaxLines == 3
\* longest file list handed to remove_windows_symbols
MaxFiles == 2
\* how many times in succession remove_windows_symbols is called
MaxRuns == 2

\* --------------------------------------------------------- module constants
OUTPUT_DIRECTORY == "build"

DOTNET_PUBLISH_COMMAND == <<"dotnet", "publish">>

PROJECT_FILE == "YTSubConverter.CLI/YTSubConverter.CLI.csproj"

FLAGS_PORTABLE == <<"--self-contained", "true">>

FLAGS_NON_PORTABLE == <<"--self-contained", "false">>

FLAGS_SINGLE_FILE ==
  <<"/p:PublishSingleFile=true", "/p:IncludeNativeLibrariesForSelfExtract=true">>

FILES_WITH_WINDOWS_SYMBOLS == <<"YTSubConverter.CLI/Program.cs">>

\* the line written by out_f.write("#undef WINDOWS\n")
UNDEF_WINDOWS == "#undef WINDOWS"

\* ------------------------------------------------------------------ strings
\* The characters of the strings whose characters the code inspects.
Chars(s) ==
  CASE s = "win-x64" -> <<"w", "i", "n", "-", "x", "6", "4">>
    [] s = "win" -> <<"w", "i", "n">>
    [] s = "wi" -> <<"w", "i">>
    [] s = "w" -> <<"w">>
    [] s = "Win-x64" -> <<"W", "i", "n", "-", "x", "6", "4">>
    [] s = "xwin" -> <<"x", "w", "i", "n">>
    [] s = "linux-x64" -> <<"l", "i", "n", "u", "x", "-", "x", "6", "4">>
    [] s = "any" -> <<"a", "n", "y">>
    [] s = "osx-x64" -> <<"o", "s", "x", "-", "x", "6", "4">>
    [] s = "YTSubConverter.CLI/Program.cs" ->
         <<"Y", "T", "S", "u", "b", "C", "o", "n", "v", "e", "r", "t", "e", "r",
           ".", "C", "L", "I", "/", "P", "r", "o", "g", "r", "a", "m", ".", "c", "s">>
    [] s = "A.CS" -> <<"A", ".", "C", "S">>
    [] s = "notes.txt" -> <<"n", "o", "t", "e", "s", ".", "t", "x", "t">>
    [] s = "#if WINDOWS" -> <<"#", "i", "f", " ", "W", "I", "N", "D", "O", "W", "S">>
    [] s = "  #define X" -> <<" ", " ", "#", "d", "e", "f", "i", "n", "e", " ", "X">>
    [] s = "using System;" ->
         <<"u", "s", "i", "n", "g", " ", "S", "y", "s", "t", "e", "m", ";">>
    [] s = "#undef WINDOWS" ->
         <<"#", "u", "n", "d", "e", "f", " ", "W", "I", "N", "D", "O", "W", "S">>
    [] OTHER -> <<>>

UpperCase ==
  <<"A", "B", "C", "D", "E", "F", "G", "H", "I", "J", "K", "L", "M",
    "N", "O", "P", "Q", "R", "S", "T", "U", "V", "W", "X", "Y", "Z">>

LowerCase ==
  <<"a", "b", "c", "d", "e", "f", "g", "h", "i", "j", "k", "l", "m",
    "n", "o", "p", "q", "r", "s", "t", "u", "v", "w", "x", "y", "z">>

\* str.casefold, on the characters (ASCII letters only occur)
Casefold(cs) ==
  [i \in 1..Len(cs) |->
     IF \E j \in 1..Len(UpperCase) : UpperCase[j] = cs[i]
     THEN LowerCase[CHOOSE j \in 1..Len(UpperCase) : UpperCase[j] = cs[i]]
     ELSE cs[i]]

\* str.startswith
StartsWith(cs, prefix) ==
  /\ Len(cs) >= Len(prefix)
  /\ SubSeq(cs, 1, Len(prefix)) = prefix

\* str.endswith
EndsWith(cs, suffix) ==
  /\ Len(cs) >= Len(suffix)
  /\ SubSeq(cs, Len(cs) - Len(suffix) + 1, Len(cs)) = suffix

Whitespace == {" ", "\t"}

RECURSIVE LStrip(_)
LStrip(cs) ==
  IF cs # <<>> /\ Head(cs) \in Whitespace THEN LStrip(Tail(cs)) ELSE cs

RECURSIVE RStrip(_)
RStrip(cs) ==
  IF cs # <<>> /\ cs[Len(cs)] \in Whitespace
  THEN RStrip(SubSeq(cs, 1, Len(cs) - 1))
  ELSE cs

\* str.strip
Strip(cs) == RStrip(LStrip(cs))

\* fname.casefold().endswith(".cs")
IsCsFile(fname) == EndsWith(Casefold(Chars(fname)), <<".", "c", "s">>)

\* line.strip().startswith("#")
IsDirective(line) == StartsWith(Strip(Chars(line)), <<"#">>)

\* args.runtime.startswith("win")
StartsWithWin(runtime) == StartsWith(Chars(runtime), <<"w", "i", "n">>)

\* ------------------------------------------------------------------ logging
LevelNo == [DEBUG |-> 10, INFO |-> 20, WARNING |-> 30]

\* logger.debug / logger.info / logger.warning on a logger set to level lvl
Emit(l, lvl, level, msg, arg) ==
  IF LevelNo[level] >= LevelNo[lvl]
  THEN Append(l, [level |-> level, msg |-> msg, arg |-> arg])
  ELSE l

\* -------------------------------------------------------------------- state
VARIABLES
  pc,              \* position of the running invocation
  args,            \* the argparse Namespace of main
  args0,           \* the Namespace as parse_args returned it
  logger_level,    \* level of the module-wide logger
  log,             \* the records the logger has emitted, in order
  exc,             \* the exception that ended the invocation, or "none"
  files,           \* remove_windows_symbols: its files parameter
  dry_run,         \* remove_windows_symbols: its dry_run parameter
  idx,             \* remove_windows_symbols: position of the for loop in files
  fs,              \* the source files on disk: name -> [exists, lines]
  fs0,             \* fs before the first call
  out_f,           \* content staged in the temporary file by the last rewrite
  opened,          \* the files opened so far
  runs,            \* completed calls of remove_windows_symbols
  snaps,           \* fs at the return of each call
  output_state,    \* what is at the output path
  output_state0,   \* what was at the output path at the start
  publish_command, \* main's token list
  launched,        \* number of external processes launched
  proc_argv,       \* argv of the launched process
  returncode,      \* exit code of the launched process
  exit_code        \* exit code of this program, once pc = "exited"

vars ==
  <<pc, args, args0, logger_level, log, exc, files, dry_run, idx, fs, fs0, out_f,
    opened, runs, snaps, output_state, output_state0, publish_command, launched,
    proc_argv, returncode, exit_code>>

stripVars == <<files, dry_run, idx, fs, fs0, out_f, opened, runs, snaps>>

publishVars ==
  <<output_state, output_state0, publish_command, launched, proc_argv, returncode,
    exit_code>>

\* ------------------------------------------------------------ input domains
\* file names that may be listed for stripping
Names == {"YTSubConverter.CLI/Program.cs", "A.CS", "notes.txt"}

\* lines a source file may hold
Lines == {"#if WINDOWS", "  #define X", "using System;", ""}

RECURSIVE SeqsUpTo(_, _)
SeqsUpTo(S, n) ==
  IF n = 0 THEN {<<>>}
  ELSE LET shorter == SeqsUpTo(S, n - 1)
       IN shorter \cup {Append(q, x) : q \in shorter, x \in S}

Contents == SeqsUpTo(Lines, MaxLines)

FileLists == SeqsUpTo(Names, MaxFiles)

Missing == [exists |-> FALSE, lines |-> <<>>]

File(lines) == [exists |-> TRUE, lines |-> lines]

\* what `--runtime` may be given (the default is "any")
Runtimes ==
  {"win-x64", "win", "wi", "w", "", "Win-x64", "xwin", "linux-x64", "any", "osx-x64"}

\* --not-windows is store_true with default None: parse_args yields None or True
RemoveWindowsSymbolsArg == {"None", "True"}

\* parse_args([]): every option at its default
DefaultArgs ==
  [project |-> PROJECT_FILE, dry_run |-> FALSE, verbose |-> FALSE, runtime |-> "any",
   configuration |-> "Release", output |-> OUTPUT_DIRECTORY, keep |-> FALSE,
   force_restore |-> FALSE, portable |-> FALSE, non_portable |-> FALSE,
   single_file |-> FALSE, remove_windows_symbols |-> "None"]

\* the Namespaces parse_args returns for the command lines considered
ParsedArgs ==
  [project : {PROJECT_FILE, "App.csproj"}, dry_run : BOOLEAN, verbose : BOOLEAN,
   runtime : {"win-x64", "linux-x64", "any"}, configuration : {"Release", "Debug"},
   output : {OUTPUT_DIRECTORY, "./out"}, keep : BOOLEAN, force_restore : BOOLEAN,
   portable : BOOLEAN, non_portable : BOOLEAN, single_file : BOOLEAN,
   remove_windows_symbols : RemoveWindowsSymbolsArg]

\* what may be at the output path: nothing (its parent directory existing or
\* not), a regular file, an empty directory, a directory with content
OutputStates == {"absent", "noparent", "file", "dir_empty", "dir_full"}

\* exit codes of the external toolchain
ReturnCodes == {0, 1, 2}

\* ---------------------------------------------------- remove_windows_symbols
\* The for loop over the lines of in_f: directive lines are copied to out_f;
\* at the first other line "#undef WINDOWS" is written and the loop breaks
\* (that line has been consumed from line_iter). rest is what line_iter
\* still holds.
RECURSIVE CopyDirectives(_, _)
CopyDirectives(line_iter, out) ==
  IF line_iter = <<>> THEN [out |-> out, rest |-> <<>>]
  ELSE IF IsDirective(Head(line_iter))
       THEN CopyDirectives(Tail(line_iter), Append(out, Head(line_iter)))
       ELSE [out |-> Append(out, UNDEF_WINDOWS), rest |-> Tail(line_iter)]

\* the content of the temporary file out_f when the with block ends
Staged(lines) ==
  LET r == CopyDirectives(lines, <<>>) IN r.out \o r.rest

FileAfterStrip_WriteBack(lines, staged) == staged

\* The content of fname when the with block ends: fname was opened for
\* reading only and out_f is a temporary file, deleted when it is closed.
FileAfterStrip(lines, staged) == lines

FileStep_NoDryRun(fname, exists, dr) ==
  IF ~IsCsFile(fname) THEN "raise"
  ELSE IF ~exists THEN "missing"
  ELSE "rewrite"

FileStep_NoExistsCheck(fname, exists, dr) ==
  IF ~IsCsFile(fname) THEN "raise"
  ELSE IF dr THEN "dry_run"
  ELSE "rewrite"

\* The if-chain at the head of the loop body: which way one file goes.
FileStep(fname, exists, dr) ==
  IF ~IsCsFile(fname) THEN "raise"
  ELSE IF ~exists THEN "missing"
  ELSE IF dr THEN "dry_run"
  ELSE "rewrite"

InLoop == pc = "strip" /\ idx <= Len(files)

CurrentStep == FileStep(files[idx], fs[files[idx]].exists, dry_run)

\* raise BuildScriptError
StripRaise ==
  /\ InLoop
  /\ CurrentStep = "raise"
  /\ exc' = "BuildScriptError"
  /\ pc' = "raised"
  /\ UNCHANGED <<args, args0, logger_level, log, stripVars, publishVars>>

\* the file does not exist: warn and continue
StripMissing ==
  /\ InLoop
  /\ CurrentStep = "missing"
  /\ log' = Emit(log, logger_level, "WARNING",
                 "Specified file to be stripped does not exist.", files[idx])
  /\ idx' = idx + 1
  /\ UNCHANGED <<pc, args, args0, logger_level, exc, files, dry_run, fs, fs0, out_f,
                 opened, runs, snaps, publishVars>>

\* dry run: report and continue
StripDryRun ==
  /\ InLoop
  /\ CurrentStep = "dry_run"
  /\ log' = Emit(log, logger_level, "INFO",
                 "Going to strip WINDOWS symbols from file", files[idx])
  /\ idx' = idx + 1
  /\ UNCHANGED <<pc, args, args0, logger_level, exc, files, dry_run, fs, fs0, out_f,
                 opened, runs, snaps, publishVars>>

\* the with block: open(fname) raises if the file is not there
StripRewrite ==
  /\ InLoop
  /\ CurrentStep = "rewrite"
  /\ LET fname == files[idx]
         lines == fs[fname].lines
     IN IF ~fs[fname].exists
        THEN /\ exc' = "FileNotFoundError"
             /\ pc' = "raised"
             /\ UNCHANGED <<log, idx, fs, out_f, opened>>
        ELSE /\ opened' = opened \cup {fname}
             /\ out_f' = Staged(lines)
             /\ fs' = [fs EXCEPT ![fname].lines = FileAfterStrip(lines, Staged(lines))]
             /\ log' = Emit(log, logger_level, "INFO",
                            "Stripped WINDOWS symbols from file", fname)
             /\ idx' = idx + 1
             /\ UNCHANGED <<pc, exc>>
  /\ UNCHANGED <<args, args0, logger_level, files, dry_run, fs0, runs, snaps,
                 publishVars>>

\* the for loop is exhausted: the function returns
StripReturn ==
  /\ pc = "strip"
  /\ idx > Len(files)
  /\ pc' = "returned"
  /\ runs' = runs + 1
  /\ snaps' = Append(snaps, fs)
  /\ UNCHANGED <<args, args0, logger_level, log, exc, files, dry_run, idx, fs, fs0,
                 out_f, opened, publishVars>>

\* the caller calls remove_windows_symbols again, with the same arguments
StripAgain ==
  /\ pc = "returned"
  /\ runs < MaxRuns
  /\ pc' = "strip"
  /\ idx' = 1
  /\ UNCHANGED <<args, args0, logger_level, log, exc, files, dry_run, fs, fs0, out_f,
                 opened, runs, snaps, publishVars>>

\* remove_windows_symbols(files, dry_run) called on its own
InitStrip ==
  /\ pc = "strip"
  /\ args = DefaultArgs
  /\ args0 = DefaultArgs
  /\ logger_level = "INFO"
  /\ log = <<>>
  /\ exc = "none"
  /\ files \in FileLists
  /\ dry_run \in BOOLEAN
  /\ idx = 1
  /\ \E p \in {Missing} \cup {File(c) : c \in Contents},
        a \in {Missing, File(<<"using System;">>)} :
       fs = [n \in Names |->
               IF n = "YTSubConverter.CLI/Program.cs" THEN p
               ELSE IF n = "A.CS" THEN a
               ELSE File(<<"">>)]
  /\ fs0 = fs
  /\ out_f = <<>>
  /\ opened = {}
  /\ runs = 0
  /\ snaps = <<>>
  /\ output_state = "absent"
  /\ output_state0 = "absent"
  /\ publish_command = <<>>
  /\ launched = 0
  /\ proc_argv = <<>>
  /\ returncode = 0
  /\ exit_code = 0

NextStrip ==
  \/ StripRaise
  \/ StripMissing
  \/ StripDryRun
  \/ StripRewrite
  \/ StripReturn
  \/ StripAgain

SpecStrip == InitStrip /\ [][NextStrip]_vars

\* --------------------------------------------------------------------- main
\* None and False are falsy, True is truthy
Truthy(v) == v = "True"

NormalizedSymbols_AlwaysDefault(rws, runtime) ==
  IF ~StartsWithWin(runtime) THEN "True" ELSE "None"

\* args.remove_windows_symbols after the if / elif / else of main: only an
\* unset field with a runtime not starting with "win" is assigned
NormalizedSymbols(rws, runtime) ==
  IF rws = "None"
  THEN IF ~StartsWithWin(runtime) THEN "True" ELSE "None"
  ELSE rws

\* what the if / elif / else of main hands to the logger. The two warnings
\* are plain strings, not f-strings: they hold the text {args.runtime}.
NormalizationRecords(rws, runtime) ==
  IF rws = "None"
  THEN IF ~StartsWithWin(runtime)
       THEN <<[level |-> "INFO",
               msg |-> "Detected a non-Windows runtime identifer, stripping WINDOWS symbols",
               arg |-> runtime]>>
       ELSE <<>>
  ELSE IF Truthy(rws)
       THEN IF StartsWithWin(runtime)
            THEN <<[level |-> "WARNING",
                    msg |-> "Target RID starts with win but WINDOWS symbols are going to be stripped",
                    arg |-> "{args.runtime}"]>>
            ELSE <<>>
       ELSE IF ~StartsWithWin(runtime)
            THEN <<[level |-> "WARNING",
                    msg |-> "Target RID does not start with win, but WINDOWS symbols are not going to be stripped",
                    arg |-> "{args.runtime}"]>>
            ELSE <<>>

RECURSIVE EmitAll(_, _, _)
EmitAll(l, lvl, records) ==
  IF records = <<>> THEN l
  ELSE EmitAll(Emit(l, lvl, Head(records).level, Head(records).msg, Head(records).arg),
               lvl, Tail(records))

\* main from its start to the "Parsed arguments" debug line: --verbose sets
\* the logger to DEBUG, then the remove_windows_symbols field is normalized
Normalize ==
  /\ pc = "start"
  /\ LET lvl == IF args.verbose THEN "DEBUG" ELSE logger_level
         l1 == Emit(log, lvl, "DEBUG", "Raw command-line arguments", "")
         l2 == EmitAll(l1, lvl,
                       NormalizationRecords(args.remove_windows_symbols, args.runtime))
     IN /\ logger_level' = lvl
        /\ args' = [args EXCEPT !.remove_windows_symbols =
                      NormalizedSymbols(args.remove_windows_symbols, args.runtime)]
        /\ log' = Emit(l2, lvl, "DEBUG", "Parsed arguments", "")
  /\ pc' = "normalized"
  /\ UNCHANGED <<args0, exc, stripVars, publishVars>>

\* if args.remove_windows_symbols: remove_windows_symbols(dry_run=args.dry_run)
CallStrip ==
  /\ pc = "normalized"
  /\ Truthy(args.remove_windows_symbols)
  /\ files' = FILES_WITH_WINDOWS_SYMBOLS
  /\ dry_run' = args.dry_run
  /\ idx' = 1
  /\ pc' = "strip"
  /\ UNCHANGED <<args, args0, logger_level, log, exc, fs, fs0, out_f, opened, runs,
                 snaps, publishVars>>

\* the field is None or False: the stripper is not called
SkipStrip ==
  /\ pc = "normalized"
  /\ ~Truthy(args.remove_windows_symbols)
  /\ pc' = "skipped"
  /\ UNCHANGED <<args, args0, logger_level, log, exc, stripVars, publishVars>>

AtOutput == pc \in {"returned", "skipped"}

\* output_path.exists()
Exists(o) == o \in {"file", "dir_empty", "dir_full"}

\* shutil.rmtree(output_path, ignore_errors=True)
RmTree(o) == IF o \in {"dir_empty", "dir_full"} THEN "absent" ELSE o

\* output_path.mkdir(exist_ok=True), where it does not raise
MkDir(o) == IF o = "absent" THEN "dir_empty" ELSE o

\* what is at the output path after the clean-up and the mkdir of main
OutputAfter(a, o) == MkDir(IF a.keep THEN o ELSE RmTree(o))

\* the output path is a regular file: raise NotADirectoryError
OutputIsFile ==
  /\ AtOutput
  /\ Exists(output_state) /\ output_state = "file"
  /\ exc' = "NotADirectoryError"
  /\ pc' = "raised"
  /\ UNCHANGED <<args, args0, logger_level, log, stripVars, publishVars>>

\* clean up (unless --keep) and create the output directory; mkdir raises
\* FileNotFoundError when the parent directory is not there
PrepareOutput ==
  /\ AtOutput
  /\ ~(Exists(output_state) /\ output_state = "file")
  /\ log' = IF ~args.keep
            THEN Emit(log, logger_level, "INFO", "Cleaning up build directory",
                      args.output)
            ELSE log
  /\ IF OutputAfter(args, output_state) = "noparent"
     THEN /\ exc' = "FileNotFoundError"
          /\ pc' = "raised"
          /\ UNCHANGED output_state
     ELSE /\ output_state' = OutputAfter(args, output_state)
          /\ pc' = "prepared"
          /\ UNCHANGED exc
  /\ UNCHANGED <<args, args0, logger_level, stripVars, output_state0, publish_command,
                 launched, proc_argv, returncode, exit_code>>

PortabilityFlags_NonPortableFirst(a) ==
  IF a.non_portable THEN FLAGS_NON_PORTABLE
  ELSE IF a.portable THEN FLAGS_PORTABLE
  ELSE <<>>

\* if args.portable / elif args.non_portable / else: the tokens appended
PortabilityFlags(a) ==
  IF a.portable THEN FLAGS_PORTABLE
  ELSE IF a.non_portable THEN FLAGS_NON_PORTABLE
  ELSE <<>>

\* the two warnings of the else branch
PortabilityRecords(a) ==
  IF a.portable \/ a.non_portable THEN <<>>
  ELSE <<[level |-> "WARNING",
          msg |-> "The portable build was neither enabled nor disabled.", arg |-> ""],
         [level |-> "WARNING",
          msg |-> "Falling back to dotnet publish default behavior", arg |-> ""]>>

BuildCommand_ProjectBeforeFlags(a, base) ==
  LET c1 == IF a.force_restore THEN Append(base, "--force") ELSE base
      c2 == Append(Append(c1, "--configuration"), a.configuration)
      c3 == Append(Append(c2, "--runtime"), a.runtime)
      c4 == Append(Append(c3, "--output"), a.output)
      c5 == Append(c4, a.project)
      c6 == IF a.single_file THEN c5 \o FLAGS_SINGLE_FILE ELSE c5
  IN c6 \o PortabilityFlags(a)

\* "Generation of final publish command": the appends and extends, in order
BuildCommand(a, base) ==
  LET c1 == IF a.force_restore THEN Append(base, "--force") ELSE base
      c2 == Append(Append(c1, "--configuration"), a.configuration)
      c3 == Append(Append(c2, "--runtime"), a.runtime)
      c4 == Append(Append(c3, "--output"), a.output)
      c5 == IF a.single_file THEN c4 \o FLAGS_SINGLE_FILE ELSE c4
      c6 == c5 \o PortabilityFlags(a)
  IN Append(c6, a.project)

\* main assembles its token list
Generate ==
  /\ pc = "prepared"
  /\ publish_command' = BuildCommand(args, DOTNET_PUBLISH_COMMAND)
  /\ log' = EmitAll(log, logger_level, PortabilityRecords(args))
  /\ pc' = "built"
  /\ UNCHANGED <<args, args0, logger_level, exc, stripVars, output_state,
                 output_state0, launched, proc_argv, returncode, exit_code>>

ReportCommand(l, lvl, cmd) ==
  IF LevelNo["INFO"] >= LevelNo[lvl]
  THEN Append(l, [level |-> "INFO", msg |-> "Publish command", arg |-> "", cmd |-> cmd])
  ELSE l

\* --dry-run: the command is only logged
DryRunReport ==
  /\ pc = "built"
  /\ args.dry_run
  /\ log' = ReportCommand(log, logger_level, publish_command)
  /\ pc' = "finished"
  /\ UNCHANGED <<args, args0, logger_level, exc, stripVars, publishVars>>

\* subprocess.run(publish_command): the process runs to its end and its
\* CompletedProcess is dropped
RunPublish ==
  /\ pc = "built"
  /\ ~args.dry_run
  /\ log' = ReportCommand(log, logger_level, publish_command)
  /\ launched' = launched + 1
  /\ proc_argv' = publish_command
  /\ \E rc \in ReturnCodes : returncode' = rc
  /\ pc' = "finished"
  /\ UNCHANGED <<args, args0, logger_level, exc, stripVars, output_state,
                 output_state0, publish_command, exit_code>>

\* subprocess.run cannot start the program: FileNotFoundError
LaunchFails ==
  /\ pc = "built"
  /\ ~args.dry_run
  /\ log' = ReportCommand(log, logger_level, publish_command)
  /\ exc' = "FileNotFoundError"
  /\ pc' = "raised"
  /\ UNCHANGED <<args, args0, logger_level, stripVars, publishVars>>

\* the exit code of the script: main() returns None, so 0; an uncaught
\* exception ends the interpreter with 1
ExitCode(raised, was_launched, rc) == IF raised THEN 1 ELSE 0

\* main() returned
Exit ==
  /\ pc = "finished"
  /\ exit_code' = ExitCode(FALSE, launched > 0, returncode)
  /\ pc' = "exited"
  /\ UNCHANGED <<args, args0, logger_level, log, exc, stripVars, output_state,
                 output_state0, publish_command, launched, proc_argv, returncode>>

\* an exception left main()
ExitTraceback ==
  /\ pc = "raised"
  /\ exit_code' = ExitCode(TRUE, launched > 0, returncode)
  /\ pc' = "exited"
  /\ UNCHANGED <<args, args0, logger_level, log, exc, stripVars, output_state,
                 output_state0, publish_command, launched, proc_argv, returncode>>

\* the script run from the command line
Init ==
  /\ pc = "start"
  /\ args \in ParsedArgs
  /\ args0 = args
  /\ logger_level = "INFO"
  /\ log = <<>>
  /\ exc = "none"
  /\ files = <<>>
  /\ dry_run = FALSE
  /\ idx = 1
  /\ \E p \in {Missing, File(<<"#if WINDOWS", "using System;", "">>)} :
       fs = [n \in Names |->
               IF n = "YTSubConverter.CLI/Program.cs" THEN p ELSE Missing]
  /\ fs0 = fs
  /\ out_f = <<>>
  /\ opened = {}
  /\ runs = 0
  /\ snaps = <<>>
  /\ output_state \in OutputStates
  /\ output_state0 = output_state
  /\ publish_command = <<>>
  /\ launched = 0
  /\ proc_argv = <<>>
  /\ returncode = 0
  /\ exit_code = 0

Next ==
  \/ Normalize
  \/ CallStrip
  \/ SkipStrip
  \/ StripMissing
  \/ StripDryRun
  \/ StripRewrite
  \/ StripReturn
  \/ OutputIsFile
  \/ PrepareOutput
  \/ Generate
  \/ DryRunReport
  \/ RunPublish
  \/ LaunchFails
  \/ Exit
  \/ ExitTraceback

Spec == Init /\ [][Next]_vars

\* the normalization of main on every value the field can hold
InitNormalize ==
  /\ pc = "start"
  /\ \E rws \in {"None", "True", "False"}, rt \in Runtimes, v \in BOOLEAN :
       args = [DefaultArgs EXCEPT !.remove_windows_symbols = rws, !.runtime = rt,
                                  !.verbose = v]
  /\ args0 = args
  /\ logger_level = "INFO"
  /\ log = <<>>
  /\ exc = "none"
  /\ files = <<>>
  /\ dry_run = FALSE
  /\ idx = 1
  /\ fs = [n \in Names |-> Missing]
  /\ fs0 = fs
  /\ out_f = <<>>
  /\ opened = {}
  /\ runs = 0
  /\ snaps = <<>>
  /\ output_state = "absent"
  /\ output_state0 = "absent"
  /\ publish_command = <<>>
  /\ launched = 0
  /\ proc_argv = <<>>
  /\ returncode = 0
  /\ exit_code = 0

NextNormalize ==
  \/ Normalize
  \/ CallStrip
  \/ SkipStrip

SpecNormalize == InitNormalize /\ [][NextNormalize]_vars

\* ------------------------------------------------------------------- claims
\* number of positions of files that hold fname
Occurrences(fname) == Cardinality({i \in DOMAIN files : files[i] = fname})

\* number of log records of a level with a message about fname
Logged(level, msg, fname) ==
  Cardinality({i \in DOMAIN log :
                 log[i].level = level /\ log[i].msg = msg /\ log[i].arg = fname})

Warnings == Cardinality({i \in DOMAIN log : log[i].level = "WARNING"})

MsgMissing == "Specified file to be stripped does not exist."

MsgGoingTo == "Going to strip WINDOWS symbols from file"

MsgStripped == "Stripped WINDOWS symbols from file"

AllCs == \A i \in DOMAIN files : files[i] \in {"YTSubConverter.CLI/Program.cs", "A.CS"}

\* index of the first line that is not a directive, 0 if there is none; the
\* directive lines of Lines are named one by one
DirectiveLines == {"#if WINDOWS", "  #define X", UNDEF_WINDOWS}

FirstOther(L) ==
  IF \E k \in DOMAIN L : L[k] \notin DirectiveLines
  THEN CHOOSE k \in DOMAIN L :
         /\ L[k] \notin DirectiveLines
         /\ \A j \in 1..(k - 1) : L[j] \in DirectiveLines
  ELSE 0

\* L with "#undef WINDOWS" inserted at the position of its first line that is
\* not a directive, every line of L kept
WithUndefInserted(L) ==
  IF FirstOther(L) = 0 THEN L
  ELSE SubSeq(L, 1, FirstOther(L) - 1) \o <<UNDEF_WINDOWS>>
       \o SubSeq(L, FirstOther(L), Len(L))

\* C1: after remove_windows_symbols(files, dry_run = False) has returned, a
\* file of the list that existed (and is listed once) holds its former lines
\* with "#undef WINDOWS" inserted at the index of its first non-directive
\* line, and is unchanged if it has no such line.
C1_RewrittenInPlace ==
  (pc = "returned" /\ runs = 1 /\ ~dry_run) =>
    \A i \in DOMAIN files :
      (fs0[files[i]].exists /\ Occurrences(files[i]) = 1) =>
        fs[files[i]].lines = WithUndefInserted(fs0[files[i]].lines)

C3_ExitCodePropagated ==
  pc = "exited" =>
    /\ (launched > 0 => exit_code = returncode)
    /\ ((args.dry_run /\ exc = "none") => exit_code = 0)

WinTargets == {"win-x64", "win"}

\* C4: after the normalization of main: field unset and target starting with
\* 'win' - no stripping, no warning; field unset and any other target - the
\* field is True, no warning; field True with a 'win' target, or False with
\* any other target - the field keeps its value, which decides whether the
\* stripper is called, and exactly one warning has been logged.
C4_Normalization ==
  pc # "start" =>
    LET given == args0.remove_windows_symbols
        win == args0.runtime \in WinTargets
        now == args.remove_windows_symbols
    IN /\ (given = "None" /\ win) => (now # "True" /\ Warnings = 0 /\ pc # "strip")
       /\ (given = "None" /\ ~win) => (now = "True" /\ Warnings = 0 /\ pc # "skipped")
       /\ (given = "True" /\ win) => (now = "True" /\ Warnings = 1 /\ pc # "skipped")
       /\ (given = "False" /\ ~win) => (now = "False" /\ Warnings = 1 /\ pc # "strip")

\* C4 witness: -L given with a 'win' target; the stripper is being called
C4_Witness ==
  /\ pc = "strip"
  /\ args0.remove_windows_symbols = "True"
  /\ args0.runtime = "win-x64"
  /\ Warnings = 1

\* C5: with --dry-run no external process is ever launched and what is at the
\* output path stays what it was at the start.
C5_DryRunTouchesNothing ==
  args.dry_run => (launched = 0 /\ output_state = output_state0)

\* C6: when BuildScriptError is raised, no file of the list has been opened
\* and no per-file log line has been emitted.
C6_CheckBeforeAnyFile ==
  exc = "BuildScriptError" => (opened = {} /\ log = <<>>)

\* C7 as stated: with dry_run true no file content changes, the only log
\* lines are "would strip" lines, and the call never raises.
C7_DryRunNeverRaises ==
  dry_run =>
    /\ fs = fs0
    /\ exc = "none"
    /\ \A i \in DOMAIN log : log[i].level = "WARNING" \/ log[i].msg = MsgGoingTo

\* C7 amended: with dry_run true no file is opened and no file content
\* changes; the only log lines are the warning for a missing file and the
\* "would strip" line for an existing one, one per listed existing file once
\* the call has returned; the call raises only BuildScriptError, and only at
\* a name that does not end in '.cs'.
C7_DryRun ==
  dry_run =>
    /\ fs = fs0 /\ opened = {} /\ out_f = <<>>
    /\ \A i \in DOMAIN log :
         \/ log[i].level = "WARNING" /\ log[i].msg = MsgMissing
              /\ ~fs0[log[i].arg].exists
         \/ log[i].level = "INFO" /\ log[i].msg = MsgGoingTo
              /\ fs0[log[i].arg].exists
    /\ (AllCs => exc = "none")
    /\ (exc # "none" =>
          /\ exc = "BuildScriptError"
          /\ files[idx] = "notes.txt")
    /\ (pc = "returned" =>
          \A i \in DOMAIN files :
            fs0[files[i]].exists =>
              Logged("INFO", MsgGoingTo, files[i]) = Occurrences(files[i]) * runs)

\* C7 witness: a dry run has returned over an existing file that a rewrite
\* would change
C7_Witness ==
  /\ dry_run /\ pc = "returned"
  /\ \E i \in DOMAIN files :
       /\ fs0[files[i]].exists
       /\ FirstOther(fs0[files[i]].lines) # 0
       /\ Logged("INFO", MsgGoingTo, files[i]) = 1

BothPortable == args.portable /\ args.non_portable

SelfContained(v) ==
  Cardinality({i \in 1..(Len(publish_command) - 1) :
                 publish_command[i] = "--self-contained" /\ publish_command[i + 1] = v})

\* C8: in the assembled token list, portable and non_portable both set give
\* the pair ('--self-contained', 'true') exactly once and never the 'false'
\* pair, and assembling raises nothing; non_portable alone gives only the
\* 'false' pair; neither gives no '--self-contained' token and a warning.
C8_Portability ==
  publish_command # <<>> =>
    LET tokens == Cardinality({i \in DOMAIN publish_command :
                                 publish_command[i] = "--self-contained"})
    IN /\ BothPortable =>
            /\ SelfContained("true") = 1 /\ SelfContained("false") = 0 /\ tokens = 1
            /\ (pc = "built" => exc = "none")
       /\ (args.non_portable /\ ~args.portable) =>
            (SelfContained("false") = 1 /\ SelfContained("true") = 0 /\ tokens = 1)
       /\ (~args.non_portable /\ ~args.portable) =>
            /\ tokens = 0
            /\ \E i \in DOMAIN log :
                 /\ log[i].level = "WARNING"
                 /\ log[i].msg = "The portable build was neither enabled nor disabled."

\* C8 witness: a token list assembled with both -p and -n
C8_Witness == pc = "built" /\ BothPortable /\ SelfContained("true") = 1

\* C9: for a non-empty list of '.cs' names with at least one missing file the
\* call never raises, and once it has returned each missing entry has
\* produced exactly one warning (and nothing else) and each existing entry
\* has been processed: one info line for it, and it was opened unless dry_run.
C9_MissingSkipped ==
  (files # <<>> /\ AllCs /\ \E i \in DOMAIN files : ~fs0[files[i]].exists) =>
    /\ exc = "none"
    /\ (pc = "returned" =>
          \A i \in DOMAIN files :
            LET f == files[i]
                infos == Logged("INFO", MsgGoingTo, f) + Logged("INFO", MsgStripped, f)
            IN IF fs0[f].exists
               THEN /\ infos = Occurrences(f) * runs
                    /\ Logged("WARNING", MsgMissing, f) = 0
                    /\ (~dry_run => f \in opened)
               ELSE /\ Logged("WARNING", MsgMissing, f) = Occurrences(f) * runs
                    /\ infos = 0
                    /\ f \notin opened)

\* C9 witness: the call has returned over a missing file followed by an
\* existing one, which was processed
C9_Witness ==
  /\ pc = "returned" /\ runs = 1 /\ ~dry_run
  /\ Len(files) = 2
  /\ ~fs0[files[1]].exists /\ fs0[files[2]].exists
  /\ files[2] \in opened
  /\ Logged("WARNING", MsgMissing, files[1]) = 1

====
